---------------------------- MODULE Spec2Model ----------------------------
(***************************************************************************)
(* A model of walkoflife's remote-memory layer (src/src/memory.rs) and of  *)
(* the traversals built on it (src/src/utils.rs).                          *)
(*                                                                         *)
(* The target process's memory is a byte image plus the set of pages that  *)
(* can be read.  Every function of the crate is either an operator over    *)
(* such an image or a small state machine whose steps are the function's   *)
(* calls into the memory layer.  A call ends in one of three ways: it      *)
(* returns Ok, it returns Err, or it panics (Rust's index-out-of-bounds    *)
(* and unwrap panics unwind out of the call).                              *)
(*                                                                         *)
(* Numbers are the checker's integers, so images only hold 32-bit values   *)
(* below 2^31.                                                             *)
(***************************************************************************)
EXTENDS Integers, Sequences, FiniteSets, TLC

VARIABLES
    mem,            \* the target's memory: [readable, bytes]
    pc,             \* position of the running call
    outcome,        \* how the call ended: "none" while running, "Ok", "Err", "Panic"
    \* get_pointer_path(pid, base, offsets)
    base, offsets, cur_address, hop,
    \* the hierarchy walkers
    variant, object_names, super_object, next_brother, ret, visited,
    start_node,     \* history: the node the walk started at
    next_read,      \* history: <<node, value>> of every next-sibling read that was Ok
    \* get_family_po_vert_offsets
    offset_family, keep_instead, indices, first_entry, num_entries, i,
    po_ret, processed, skipped, off_visualset, off_first_mesh, off_verts,
    num_verts,
    \* read_string
    str_offset, str_n, bytes, string,
    \* read_prims::<T>(pid, offset, n)
    rp_offset, rp_n, rp_size, rp_ret,
    \* write_prims::<T>(pid, offset, data)
    writable, wp_offset, wp_size, wp_data, bytes_written, wp_ret,
    \* read_object_names_table
    off_names_first, num_names, cur_offset, loop_j, res_off_names_next, names_ret,
    \* the target process
    writes          \* how many times the target has changed its memory

pathVars == <<base, offsets, cur_address, hop>>
walkVars == <<variant, object_names, super_object, next_brother, ret, visited,
              start_node, next_read>>
famVars  == <<offset_family, keep_instead, indices, first_entry, num_entries, i,
              po_ret, processed, skipped, off_visualset, off_first_mesh,
              off_verts, num_verts>>
strVars  == <<str_offset, str_n, bytes, string>>
primVars == <<rp_offset, rp_n, rp_size, rp_ret>>
writeVars == <<writable, wp_offset, wp_size, wp_data, bytes_written, wp_ret>>
tableVars == <<off_names_first, num_names, cur_offset, loop_j, res_off_names_next,
               names_ret>>
otherVars == <<primVars, writeVars, tableVars, writes>>
vars     == <<mem, pc, outcome, pathVars, walkVars, famVars, strVars, otherVars>>

-----------------------------------------------------------------------------
(* The target's memory, and process_vm_readv on it *)

\* Page size of the host: process_vm_readv faults page by page.
PageSize == 4096

PageOf(a) == a \div PageSize

\* A byte of the image; a byte the image does not set is zero.
ByteAt(m, b) == IF b \in DOMAIN m.bytes THEN m.bytes[b] ELSE 0

\* The bytes, starting at a, that lie in readable pages before the first
\* page that is not, and at most len of them.
RECURSIVE ReadableRun(_, _, _)
ReadableRun(m, a, len) ==
    IF len = 0 \/ PageOf(a) \notin m.readable THEN 0
    ELSE LET inPage == PageSize - (a % PageSize)
         IN  IF len <= inPage THEN len
             ELSE inPage + ReadableRun(m, a + inPage, len - inPage)

\* process_vm_readv with one local and one remote vector of len bytes: the
\* number of bytes copied, or an error when bytes were asked for and none
\* could be copied.
process_vm_readv(m, a, len) ==
    LET copied == ReadableRun(m, a, len)
    IN  IF len > 0 /\ copied = 0
        THEN [tag |-> "Err", copied |-> 0]
        ELSE [tag |-> "Ok", copied |-> copied]

RECURSIVE Pow256(_)
Pow256(k) == IF k = 0 THEN 1 ELSE 256 * Pow256(k - 1)

\* The element of bytes_per_prim bytes at address a, as the host (x86-64,
\* little-endian) reads it: an unsigned number.
RECURSIVE PrimAt(_, _, _)
PrimAt(m, a, bytes_per_prim) ==
    IF bytes_per_prim = 0 THEN 0
    ELSE ByteAt(m, a) + 256 * PrimAt(m, a + 1, bytes_per_prim - 1)

\* read_prims that counts an element of which only some bytes were copied.
read_prims_roundup(m, offset, n, bytes_per_prim) ==
    LET r == process_vm_readv(m, offset, n * bytes_per_prim)
    IN  IF r.tag = "Err" THEN [tag |-> "Err", val |-> <<>>]
        ELSE [tag |-> "Ok",
              val |-> [k \in 1..((r.copied + bytes_per_prim - 1) \div bytes_per_prim) |->
                          PrimAt(m, offset + (k - 1) * bytes_per_prim, bytes_per_prim)]]

\* memory.rs read_prims::<T>(pid, offset, n), T of bytes_per_prim bytes.
\* Ok carries the elements that were copied whole.
read_prims(m, offset, n, bytes_per_prim) ==
    LET r == process_vm_readv(m, offset, n * bytes_per_prim)
    IN  IF r.tag = "Err" THEN [tag |-> "Err", val |-> <<>>]
        ELSE [tag |-> "Ok",
              val |-> [k \in 1..(r.copied \div bytes_per_prim) |->
                          PrimAt(m, offset + (k - 1) * bytes_per_prim, bytes_per_prim)]]

\* read_prims::<u32>(pid, a, 1)?[0] as usize: the ? returns the error, the
\* index panics on an empty vector.
ReadU32First(m, a) ==
    LET r == read_prims(m, a, 1, 4)
    IN  IF r.tag = "Err" THEN [tag |-> "Err", val |-> 0]
        ELSE IF Len(r.val) = 0 THEN [tag |-> "Panic", val |-> 0]
        ELSE [tag |-> "Ok", val |-> r.val[1]]

\* The image whose 32-bit cells are given by the function cells (address ->
\* value), stored little-endian; the cells do not overlap.
CellBytes(cells) ==
    [b \in UNION {a..(a + 3) : a \in DOMAIN cells} |->
        LET a == CHOOSE c \in DOMAIN cells : b \in c..(c + 3)
        IN  (cells[a] \div Pow256(b - a)) % 256]

None == [some |-> FALSE, v |-> <<>>]
Some(v) == [some |-> TRUE, v |-> v]

\* Sequences over S of length at most n.
SeqsUpTo(S, n) == UNION {[1..k -> S] : k \in 0..n}

-----------------------------------------------------------------------------
(* memory.rs get_pointer_path *)

\* One pass of the loop body: read the pointer at cur_address + offset.
PathHop_noadd(m, cur, offset) == ReadU32First(m, cur)

PathHop(m, cur, offset) == ReadU32First(m, cur + offset)

\* The loop of lines 88-90.  The result r of a hop is bound as an element of
\* a one-element set: a value computed once, as the code computes it.
RECURSIVE FollowOffsets(_, _, _)
FollowOffsets(m, cur, offs) ==
    IF offs = <<>> THEN [tag |-> "Ok", val |-> cur]
    ELSE CHOOSE res \in
             {IF r.tag # "Ok" THEN r ELSE FollowOffsets(m, r.val, Tail(offs)) :
                 r \in {PathHop(m, cur, Head(offs))}} : TRUE

\* get_pointer_path that reads a null pointer where a read fails.
get_pointer_path_nullonerr(m, b, offs) ==
    CHOOSE res \in
        {IF whole.tag = "Err" THEN [tag |-> "Ok", val |-> 0] ELSE whole :
            whole \in {IF r.tag # "Ok" THEN r
                       ELSE IF offs.some THEN FollowOffsets(m, r.val, offs.v)
                       ELSE r : r \in {ReadU32First(m, b)}}} : TRUE

\* The whole call, for the callers in utils.rs.
get_pointer_path(m, b, offs) ==
    CHOOSE res \in
        {IF r.tag # "Ok" THEN r
         ELSE IF offs.some THEN FollowOffsets(m, r.val, offs.v)
         ELSE r : r \in {ReadU32First(m, b)}} : TRUE

\* The call, read by read.  hop counts the offsets already followed.
pp_ReadBase ==
    /\ pc = "pp_base"
    /\ LET r == ReadU32First(mem, base)
       IN  IF r.tag = "Ok"
           THEN /\ cur_address' = r.val
                /\ pc' = IF offsets.some THEN "pp_loop" ELSE "pp_return"
                /\ outcome' = outcome
           ELSE /\ pc' = "done"
                /\ outcome' = r.tag
                /\ cur_address' = cur_address
    /\ UNCHANGED <<mem, base, offsets, hop, walkVars, famVars, strVars, otherVars>>

pp_ReadHop ==
    /\ pc = "pp_loop"
    /\ hop < Len(offsets.v)
    /\ LET r == PathHop(mem, cur_address, offsets.v[hop + 1])
       IN  IF r.tag = "Ok"
           THEN /\ cur_address' = r.val
                /\ hop' = hop + 1
                /\ UNCHANGED <<pc, outcome>>
           ELSE /\ pc' = "done"
                /\ outcome' = r.tag
                /\ UNCHANGED <<cur_address, hop>>
    /\ UNCHANGED <<mem, base, offsets, walkVars, famVars, strVars, otherVars>>

pp_LoopEnd ==
    /\ pc = "pp_loop"
    /\ hop = Len(offsets.v)
    /\ pc' = "pp_return"
    /\ UNCHANGED <<mem, outcome, pathVars, walkVars, famVars, strVars, otherVars>>

pp_Return ==
    /\ pc = "pp_return"
    /\ pc' = "done"
    /\ outcome' = "Ok"
    /\ UNCHANGED <<mem, pathVars, walkVars, famVars, strVars, otherVars>>

-----------------------------------------------------------------------------
(* Values of the variables a call does not use *)

EmptyMap == [x \in {} |-> 0]

IdlePath == base = 0 /\ offsets = None /\ cur_address = 0 /\ hop = 0

IdleWalk ==
    /\ variant = "none" /\ object_names = <<>> /\ super_object = 0
    /\ next_brother = 0 /\ ret = EmptyMap /\ visited = <<>>
    /\ start_node = 0 /\ next_read = <<>>

IdleFam ==
    /\ offset_family = 0 /\ keep_instead = FALSE /\ indices = {}
    /\ first_entry = 0 /\ num_entries = 0 /\ i = 0
    /\ po_ret = EmptyMap /\ processed = {} /\ skipped = {}
    /\ off_visualset = 0 /\ off_first_mesh = 0 /\ off_verts = 0 /\ num_verts = 0

IdleStr == str_offset = 0 /\ str_n = 0 /\ bytes = <<>> /\ string = <<>>

IdlePrim == rp_offset = 0 /\ rp_n = 0 /\ rp_size = 1 /\ rp_ret = <<>>

IdleWrite ==
    /\ writable = {} /\ wp_offset = 0 /\ wp_size = 1 /\ wp_data = <<>>
    /\ bytes_written = 0 /\ wp_ret = <<>>

IdleTable ==
    /\ off_names_first = 0 /\ num_names = 0 /\ cur_offset = 0 /\ loop_j = 0
    /\ res_off_names_next = [tag |-> "none", val |-> 0] /\ names_ret = <<>>

\* The target leaves its memory alone.
IdleTarget == writes = 0

-----------------------------------------------------------------------------
(* get_pointer_path on every small image *)

\* The longest offset list tried.
MaxOffsets == 2

\* Where the images hold pointers: two cells in page 1, and one that lies
\* across the end of page 1 (its last two bytes are in page 2).
PathCells == {4096, 4100, 8190}
PathVals  == {0, 4096, 8186, 8190}
PathPages == {1, 2}
PathOffs  == {0, 4}

PathImages ==
    {[readable |-> rd, bytes |-> CellBytes(c)] :
        rd \in SUBSET PathPages, c \in [PathCells -> PathVals]}

InitPath ==
    /\ mem \in PathImages
    /\ base \in PathCells
    /\ offsets \in {None} \cup {Some(o) : o \in SeqsUpTo(PathOffs, MaxOffsets)}
    /\ cur_address = base
    /\ hop = 0
    /\ pc = "pp_base"
    /\ outcome = "none"
    /\ IdleWalk /\ IdleFam /\ IdleStr
    /\ IdlePrim /\ IdleWrite /\ IdleTable /\ IdleTarget

NextPath == pp_ReadBase \/ pp_ReadHop \/ pp_LoopEnd \/ pp_Return

SpecPath == InitPath /\ [][NextPath]_vars

\* The specification's reading of a path: a_0 = *base, a_k = *(a_(k-1) + o_k),
\* each * the unsigned little-endian 32-bit value of the image.
RECURSIVE IterDeref(_, _, _, _)
IterDeref(m, b, offs, k) ==
    IF k = 0 THEN PrimAt(m, b, 4)
    ELSE PrimAt(m, IterDeref(m, b, offs, k - 1) + offs[k], 4)

\* All four bytes at a can be read.
Readable32(m, a) == \A b \in a..(a + 3) : PageOf(b) \in m.readable

AllHopsReadable(m, b, offs) ==
    /\ Readable32(m, b)
    /\ \A k \in 1..Len(offs) : Readable32(m, IterDeref(m, b, offs, k - 1) + offs[k])

\* C1: when every hop of the path can be read, get_pointer_path returns Ok
\* with the value of the iterated dereference a_n; with no offsets (None or
\* an empty list) that is the one 32-bit value at base.  The call as a whole
\* gives the same answer as its steps.
C1_PathIsIteratedDeref ==
    (pc = "done" /\ AllHopsReadable(mem, base, offsets.v)) =>
        /\ outcome = "Ok"
        /\ cur_address = IterDeref(mem, base, offsets.v, Len(offsets.v))
        /\ (Len(offsets.v) = 0 => cur_address = PrimAt(mem, base, 4))
        /\ get_pointer_path(mem, base, offsets) = [tag |-> "Ok", val |-> cur_address]

C1_Witness ==
    /\ pc = "done" /\ outcome = "Ok"
    /\ AllHopsReadable(mem, base, offsets.v)
    /\ Len(offsets.v) = 2 /\ offsets.v[1] = 4 /\ offsets.v[2] = 0
    /\ cur_address = 8186
    /\ cur_address # PrimAt(mem, base, 4)

\* C2: a call ends in Ok or Err and nothing else; in particular a hop that
\* transfers fewer than four bytes ends it with Err.
C2_OkOrErrOnly ==
    pc = "done" => outcome \in {"Ok", "Err"}

-----------------------------------------------------------------------------
(* utils.rs get_active_super_object_names and                              *)
(* get_active_super_object_ai_model_names                                  *)

off_dynam_world == 5246928      \* 0x500FD0

\* A walk round a cyclic chain never ends; the model follows it for this
\* many inserts.
MaxVisits == 5

\* object_names.get(name_index), or the placeholder format!("unknown_{}", ..).
NameOf_shared(names, name_index, node) ==
    IF name_index < Len(names) THEN names[name_index + 1] ELSE "unknown"

NameOf(names, name_index, node) ==
    IF name_index < Len(names) THEN names[name_index + 1]
    ELSE "unknown_" \o ToString(node)

\* HashMap::insert: the new value replaces the one under the same key.
Insert_keepfirst(map, key, val) ==
    [k \in DOMAIN map \cup {key} |-> IF k \in DOMAIN map THEN map[k] ELSE val]

Insert(map, key, val) ==
    [k \in DOMAIN map \cup {key} |-> IF k = key THEN val ELSE map[k]]

\* The accumulating insert of the AI-model walker (lines 437-441).
Accumulate_replace(map, key, val) == Insert(map, key, <<val>>)

Accumulate(map, key, val) ==
    IF key \in DOMAIN map THEN [map EXCEPT ![key] = Append(@, val)]
    ELSE Insert(map, key, <<val>>)

\* The offsets from a node's +4 pointer to its name index.
NameIndexOffsets_swapped(v) == IF v = "names" THEN <<4, 4>> ELSE <<4, 8>>

NameIndexOffsets(v) == IF v = "names" THEN <<4, 8>> ELSE <<4, 4>>

\* match super_object { 0 => the dynamic world's first child, val => val }
w_Root ==
    /\ pc = "w_root"
    /\ IF super_object = 0
       THEN \E r \in {get_pointer_path(mem, off_dynam_world, Some(<<8>>))} :
                IF r.tag = "Ok"
                THEN /\ next_brother' = r.val
                     /\ start_node' = r.val
                     /\ pc' = "w_loop"
                     /\ outcome' = outcome
                ELSE /\ pc' = "done"
                     /\ outcome' = r.tag
                     /\ UNCHANGED <<next_brother, start_node>>
       ELSE /\ next_brother' = super_object
            /\ start_node' = super_object
            /\ pc' = "w_loop"
            /\ outcome' = outcome
    /\ UNCHANGED <<mem, variant, object_names, super_object, ret, visited,
                   next_read, pathVars, famVars, strVars, otherVars>>

\* The first half of the loop body: the null test, the name index, the insert.
w_Name ==
    /\ pc = "w_loop"
    /\ Len(visited) < MaxVisits
    /\ IF next_brother # 0
       THEN \E r \in {get_pointer_path(mem, next_brother + 4,
                                         Some(NameIndexOffsets(variant)))} :
                CASE r.tag = "Ok" ->
                       LET name == NameOf(object_names, r.val, next_brother)
                       IN  /\ ret' = IF variant = "names"
                                     THEN Insert(ret, name, next_brother)
                                     ELSE Accumulate(ret, name, next_brother)
                           /\ visited' = Append(visited, next_brother)
                           /\ pc' = "w_next"
                           /\ outcome' = outcome
                  [] r.tag = "Err" ->
                       /\ pc' = "w_return"
                       /\ UNCHANGED <<ret, visited, outcome>>
                  [] OTHER ->
                       /\ pc' = "done"
                       /\ outcome' = r.tag
                       /\ UNCHANGED <<ret, visited>>
       ELSE /\ pc' = "w_return"
            /\ UNCHANGED <<ret, visited, outcome>>
    /\ UNCHANGED <<mem, variant, object_names, super_object, next_brother,
                   start_node, next_read, pathVars, famVars, strVars, otherVars>>

\* The second half: the next-sibling pointer at +0x14.
w_Next ==
    /\ pc = "w_next"
    /\ \E r \in {get_pointer_path(mem, next_brother + 20, None)} :
           CASE r.tag = "Ok" ->
                  /\ next_brother' = r.val
                  /\ next_read' = Append(next_read, <<next_brother, r.val>>)
                  /\ pc' = "w_loop"
                  /\ outcome' = outcome
             [] r.tag = "Err" ->
                  /\ pc' = "w_return"
                  /\ UNCHANGED <<next_brother, next_read, outcome>>
             [] OTHER ->
                  /\ pc' = "done"
                  /\ outcome' = r.tag
                  /\ UNCHANGED <<next_brother, next_read>>
    /\ UNCHANGED <<mem, variant, object_names, super_object, ret, visited,
                   start_node, pathVars, famVars, strVars, otherVars>>

w_Return ==
    /\ pc = "w_return"
    /\ pc' = "done"
    /\ outcome' = "Ok"
    /\ UNCHANGED <<mem, walkVars, pathVars, famVars, strVars, otherVars>>

NextWalk == w_Root \/ w_Name \/ w_Next \/ w_Return

-----------------------------------------------------------------------------
(* Sibling chains in memory *)

\* The longest chain tried.
MaxNodes == 3

\* What may be wrong with one node of a chain: a page its name-index path
\* crosses is unreadable ("name_err"), its name index lies across the end of
\* the last readable page ("name_short"), its next-sibling pointer is on an
\* unreadable page ("next_err") or lies across the end of the last readable
\* page ("next_short").
FaultKinds == {"name_err", "name_short", "next_err", "next_short"}

\* Node k lives in its own region of five pages: the node, the page after
\* it, the block its +4 pointer names, the block holding the indices, and
\* the page after that.
Region(k) == k * 65536

NodeAddr(k, kind) ==
    Region(k) + (CASE kind = "next_err" -> 4080
                   [] kind = "next_short" -> 4074
                   [] OTHER -> 0)

PAddr(k) == Region(k) + 2 * PageSize

QAddr(k, kind, v) ==
    Region(k) + 3 * PageSize
        + (IF kind = "name_short" THEN 4094 - NameIndexOffsets(v)[2] ELSE 0)

NodePages(k, kind) ==
    {PageOf(Region(k)) + d : d \in 0..4}
        \ (CASE kind = "name_err" -> {PageOf(Region(k)) + 2}
             [] kind = "name_short" -> {PageOf(Region(k)) + 4}
             [] kind \in {"next_err", "next_short"} -> {PageOf(Region(k)) + 1}
             [] OTHER -> {})

\* The cells of node k: +4 -> P, P+4 -> Q, Q+4 -> its AI-model index,
\* Q+8 -> its super-object name index, +0x14 -> the next sibling.  idx is
\* the index the walker v reads; the other index differs from it.
NodeCells(k, kind, v, idx, next) ==
    LET A == NodeAddr(k, kind)
        P == PAddr(k)
        Q == QAddr(k, kind, v)
        other == (idx + 1) % 3
    IN  (A + 4 :> P) @@ (P + 4 :> Q)
            @@ (Q + 4 :> IF v = "ai" THEN idx ELSE other)
            @@ (Q + 8 :> IF v = "names" THEN idx ELSE other)
            @@ (A + 20 :> next)

\* The dynamic world: off_dynam_world -> W, W+8 -> the first node.
WorldAddr(rootMode) == 5246976 + (IF rootMode = "canon_short" THEN 4086 ELSE 0)

WorldCells(rootMode, first) ==
    (off_dynam_world :> WorldAddr(rootMode)) @@ (WorldAddr(rootMode) + 8 :> first)

WorldPages(rootMode) ==
    CASE rootMode = "canon_err" -> {}
      [] rootMode = "canon_short" -> {PageOf(off_dynam_world), PageOf(off_dynam_world) + 1}
      [] OTHER -> {PageOf(off_dynam_world) + d : d \in 0..2}

\* kinds[k] is "ok" or the fault of node k; idxs[k] its name index.
KindOf(faultNode, faultKind, k) == IF k = faultNode THEN faultKind ELSE "ok"

RECURSIVE MergeCells(_, _)
MergeCells(f, k) == IF k = 0 THEN f[0] ELSE f[k] @@ MergeCells(f, k - 1)

ChainImage(v, idxs, term, faultNode, faultKind, rootMode) ==
    LET n == Len(idxs)
        addr(k) == NodeAddr(k, KindOf(faultNode, faultKind, k))
        next(k) == IF k < n THEN addr(k + 1)
                   ELSE IF term = "cycle" THEN addr(1) ELSE 0
        first == IF n = 0 THEN 0 ELSE addr(1)
        cells == [k \in 0..n |->
                    IF k = 0 THEN WorldCells(rootMode, first)
                    ELSE NodeCells(k, KindOf(faultNode, faultKind, k), v, idxs[k], next(k))]
    IN  [readable |-> WorldPages(rootMode)
                        \cup UNION {NodePages(k, KindOf(faultNode, faultKind, k)) : k \in 1..n},
         bytes |-> CellBytes(MergeCells(cells, n))]

\* The name tables tried: two names, one name twice, a table that holds a
\* string of the placeholder's form, and the empty table.
NameTables ==
    {<<"A", "B">>, <<"A", "A">>, <<"unknown_65536", "B">>, <<>>}

NameIdxs == 0..2

RootModes == {"given", "canon", "canon_err", "canon_short"}

\* The calls tried: [v, idxs, term, faultNode, faultKind, rootMode].
WalkCases ==
    {c \in [v : {"names", "ai"}, idxs : SeqsUpTo(NameIdxs, MaxNodes),
            term : {"null", "cycle"}, faultNode : 0..MaxNodes,
            faultKind : FaultKinds, rootMode : RootModes] :
        /\ c.faultNode <= Len(c.idxs)
        /\ c.faultNode = 0 => c.faultKind = "name_err"
        /\ Len(c.idxs) = 0 => c.term = "null" /\ c.rootMode # "given"
        /\ c.rootMode \in {"canon_err", "canon_short"} =>
               Len(c.idxs) <= 1 /\ c.faultNode = 0 /\ c.term = "null"}

InitWalk ==
    /\ \E c \in WalkCases :
          /\ mem = ChainImage(c.v, c.idxs, c.term, c.faultNode, c.faultKind, c.rootMode)
          /\ variant = c.v
          /\ super_object = IF c.rootMode = "given"
                            THEN NodeAddr(1, KindOf(c.faultNode, c.faultKind, 1))
                            ELSE 0
    /\ object_names \in NameTables
    /\ next_brother = 0
    /\ ret = EmptyMap
    /\ visited = <<>>
    /\ start_node = 0
    /\ next_read = <<>>
    /\ pc = "w_root"
    /\ outcome = "none"
    /\ IdlePath /\ IdleFam /\ IdleStr
    /\ IdlePrim /\ IdleWrite /\ IdleTable /\ IdleTarget

SpecWalk == InitWalk /\ [][NextWalk]_vars

-----------------------------------------------------------------------------
(* What the specification says of a walk, read off the image directly *)

\* The node the walk starts at.
StartNode ==
    IF super_object # 0 THEN super_object
    ELSE IterDeref(mem, off_dynam_world, <<8>>, 1)

RootReadable == super_object # 0 \/ AllHopsReadable(mem, off_dynam_world, <<8>>)

SpecIndexOffsets == IF variant = "names" THEN <<4, 8>> ELSE <<4, 4>>

RawNext(a) == PrimAt(mem, a + 20, 4)
RawIndex(a) == IterDeref(mem, a + 4, SpecIndexOffsets, 2)
NameReadable(a) == AllHopsReadable(mem, a + 4, SpecIndexOffsets)
NextReadable(a) == Readable32(mem, a + 20)
\* The next-sibling read transfers nothing: an I/O error.
NextFails(a) == PageOf(a + 20) \notin mem.readable

\* The display name of node a: its table entry, or "unknown_" and the
\* node's address in decimal.
SpecName(a) ==
    IF RawIndex(a) < Len(object_names) THEN object_names[RawIndex(a) + 1]
    ELSE "unknown_" \o ToString(a)

\* The chain from a, following next-sibling pointers to the null sentinel,
\* cut after fuel nodes.
RECURSIVE ChainFrom(_, _)
ChainFrom(a, fuel) ==
    IF a = 0 \/ fuel = 0 THEN <<>> ELSE <<a>> \o ChainFrom(RawNext(a), fuel - 1)

SpecChain == ChainFrom(StartNode, MaxNodes + 1)

\* A chain that reaches the null sentinel.
ChainIsFinite == Len(SpecChain) <= MaxNodes

Range(seq) == {seq[k] : k \in 1..Len(seq)}

NamesOf(seq) == {SpecName(seq[k]) : k \in 1..Len(seq)}

\* The unique registry of the nodes of seq: each name maps to the last node
\* of seq that bears it.
RegistryOf(seq) ==
    [name \in NamesOf(seq) |->
        LET last == CHOOSE k \in 1..Len(seq) :
                        /\ SpecName(seq[k]) = name
                        /\ \A j \in (k + 1)..Len(seq) : SpecName(seq[j]) # name
        IN  seq[last]]

\* The nodes of seq that bear name, in order.
Bearing(seq, name) ==
    LET Test(a) == SpecName(a) = name IN SelectSeq(seq, Test)

\* Node j of the chain is the first whose next-sibling read fails, and every
\* read before that one succeeds.
NextFailsAt(j) ==
    /\ j \in 1..Len(SpecChain)
    /\ RootReadable
    /\ \A k \in 1..j : NameReadable(SpecChain[k])
    /\ \A k \in 1..(j - 1) : NextReadable(SpecChain[k])
    /\ NextFails(SpecChain[j])

\* C3 as claimed: when the next-sibling read of chain node j fails, the
\* unique-name walk returns Ok with the entries of the nodes before node j
\* only (for A, B, C with B's read failing: A alone).
C3_OnlyPrecedingNodes ==
    \A j \in 1..MaxNodes :
        (pc = "done" /\ variant = "names" /\ NextFailsAt(j)) =>
            /\ outcome = "Ok"
            /\ ret = RegistryOf(SubSeq(SpecChain, 1, j - 1))

\* C3 as amended: when the next-sibling read of chain node j fails with an
\* I/O error, the unique-name walk returns Ok with the registry of the nodes
\* up to and including node j (for A, B, C with B's read failing: A and B).
C3_UpToFailingNode ==
    \A j \in 1..MaxNodes :
        (pc = "done" /\ variant = "names" /\ NextFailsAt(j)) =>
            /\ outcome = "Ok"
            /\ visited = SubSeq(SpecChain, 1, j)
            /\ ret = RegistryOf(SubSeq(SpecChain, 1, j))

C3_Witness ==
    /\ pc = "done" /\ variant = "names" /\ outcome = "Ok"
    /\ Len(SpecChain) = 3
    /\ NextFailsAt(2)
    /\ Cardinality(DOMAIN ret) = 2
    /\ SpecName(SpecChain[1]) = "A" /\ SpecName(SpecChain[2]) = "B"

\* Every read of the walk succeeds and the chain is finite.
AllReadsSucceed ==
    /\ RootReadable
    /\ ChainIsFinite
    /\ \A k \in 1..Len(SpecChain) :
          NameReadable(SpecChain[k]) /\ NextReadable(SpecChain[k])

DistinctNames ==
    \A j, k \in 1..Len(SpecChain) :
        j # k => SpecName(SpecChain[j]) # SpecName(SpecChain[k])

\* C5: on a finite chain where every read succeeds and the nodes bear
\* pairwise distinct names, the unique-name walk returns Ok with exactly one
\* entry per chain node, the node's name mapped to the node's address.
C5_OneEntryPerNode ==
    (pc = "done" /\ variant = "names" /\ AllReadsSucceed /\ DistinctNames) =>
        /\ outcome = "Ok"
        /\ DOMAIN ret = NamesOf(SpecChain)
        /\ Cardinality(DOMAIN ret) = Len(SpecChain)
        /\ \A k \in 1..Len(SpecChain) : ret[SpecName(SpecChain[k])] = SpecChain[k]

C5_Witness ==
    /\ pc = "done" /\ variant = "names" /\ outcome = "Ok"
    /\ AllReadsSucceed /\ DistinctNames
    /\ Len(SpecChain) = 3
    /\ DOMAIN ret = {"A", "B", "unknown_196608"}
    /\ ret["A"] = 65536 /\ ret["B"] = 131072

\* C6: when the AI-model walk returns, the entry of each name is the list
\* of the visited chain nodes that bear the name, each once, in the order
\* of the chain.
C6_AllAddressesInOrder ==
    (pc = "done" /\ variant = "ai" /\ outcome = "Ok") =>
        /\ visited = SubSeq(SpecChain, 1, Len(visited))
        /\ DOMAIN ret = NamesOf(visited)
        /\ \A name \in DOMAIN ret :
              /\ ret[name] = Bearing(SubSeq(SpecChain, 1, Len(visited)), name)
              /\ Cardinality(Range(ret[name])) = Len(ret[name])

C6_Witness ==
    /\ pc = "done" /\ variant = "ai" /\ outcome = "Ok"
    /\ Len(visited) = 3
    /\ "A" \in DOMAIN ret
    /\ ret["A"] = <<65536, 196608>>

\* A node the walk gave a placeholder name.
HasPlaceholder(a) == RawIndex(a) >= Len(object_names)

\* C7: a placeholder is unique to its node: no other node that the walk
\* records, whether named from the table or by a placeholder of its own,
\* comes under the same registry key.
C7_PlaceholderKeyUnshared ==
    \A j, k \in 1..Len(visited) :
        (visited[j] # visited[k] /\ HasPlaceholder(visited[j])) =>
            SpecName(visited[j]) # SpecName(visited[k])

\* C8: a walk that ends returns a result, and returns Err only when the
\* root was 0 and the dynamic world's first child could not be resolved; a
\* failed or short read at a node never ends it any other way than Ok.
C8_WalkReturnsOkUnlessRootFails ==
    pc = "done" =>
        /\ outcome \in {"Ok", "Err"}
        /\ outcome = "Err" => (super_object = 0 /\ ~RootReadable)

-----------------------------------------------------------------------------
(* utils.rs get_family_po_vert_offsets *)

\* A 16-bit pattern as the i16 it is read as.
AsI16(u) == IF u >= 32768 THEN u - 65536 ELSE u

\* The filter of line 215: the record is skipped when this holds.
FilterSkips(idx, keep, i0) == (i0 \in idx) = keep

\* What `continue` does: on to the next record.
Continue ==
    /\ i' = i + 1
    /\ pc' = "f_loop"
    /\ outcome' = outcome

\* What a return or a panic inside the loop does.
EndWith(tag) ==
    /\ pc' = "done"
    /\ outcome' = tag
    /\ i' = i

famArgs == <<offset_family, keep_instead, indices, first_entry, num_entries>>

\* Lines 200-210: the default-objects table and its header.
f_Start ==
    /\ pc = "f_start"
    /\ LET t == get_pointer_path(mem, offset_family + 28, None)
       IN  IF t.tag # "Ok"
           THEN /\ pc' = "done"
                /\ outcome' = t.tag
                /\ UNCHANGED <<first_entry, num_entries>>
           ELSE LET h == read_prims(mem, t.val + 4, 3, 4)
                IN  IF h.tag = "Err"
                    THEN /\ pc' = "done"
                         /\ outcome' = "Err"
                         /\ UNCHANGED <<first_entry, num_entries>>
                    ELSE IF Len(h.val) < 3
                    THEN /\ pc' = "done"            \* vec[0], vec[2]
                         /\ outcome' = "Panic"
                         /\ UNCHANGED <<first_entry, num_entries>>
                    ELSE /\ first_entry' = h.val[1]
                         /\ num_entries' = h.val[3]
                         /\ pc' = "f_loop"
                         /\ outcome' = outcome
    /\ UNCHANGED <<mem, offset_family, keep_instead, indices, i, po_ret,
                   processed, skipped, off_visualset, off_first_mesh, off_verts,
                   num_verts, pathVars, walkVars, strVars, otherVars>>

\* Lines 212-217: the next record, and the filter.
f_Filter ==
    /\ pc = "f_loop"
    /\ i < num_entries
    /\ IF FilterSkips(indices, keep_instead, i)
       THEN /\ skipped' = skipped \cup {i}
            /\ processed' = processed
            /\ Continue
       ELSE /\ processed' = processed \cup {i}
            /\ skipped' = skipped
            /\ pc' = "f_visualset"
            /\ UNCHANGED <<i, outcome>>
    /\ UNCHANGED <<mem, famArgs, po_ret, off_visualset, off_first_mesh,
                   off_verts, num_verts, pathVars, walkVars, strVars, otherVars>>

\* Lines 219-222: the visual set pointer.
f_VisualSet ==
    /\ pc = "f_visualset"
    /\ LET cur_entry == first_entry + (i * 20)
           r == get_pointer_path(mem, cur_entry + 4, Some(<<0>>))
       IN  CASE r.tag = "Ok" ->
                  /\ off_visualset' = r.val
                  /\ pc' = "f_lodtype"
                  /\ UNCHANGED <<i, outcome>>
             [] r.tag = "Err" -> Continue /\ UNCHANGED off_visualset
             [] OTHER -> EndWith(r.tag) /\ UNCHANGED off_visualset
    /\ UNCHANGED <<mem, famArgs, po_ret, processed, skipped, off_first_mesh,
                   off_verts, num_verts, pathVars, walkVars, strVars, otherVars>>

\* Lines 224-229: the LOD count and the visual type.
f_LodType ==
    /\ pc = "f_lodtype"
    /\ LET r == read_prims(mem, off_visualset + 4, 2, 2)
       IN  IF r.tag = "Err" THEN Continue
           ELSE IF Len(r.val) < 2 THEN EndWith("Panic")        \* vec[0], vec[1]
           ELSE LET num_of_lod == AsI16(r.val[1])
                    visual_type == AsI16(r.val[2])
                IN  IF num_of_lod > 0 /\ visual_type = 0
                    THEN pc' = "f_firstmesh" /\ UNCHANGED <<i, outcome>>
                    ELSE Continue
    /\ UNCHANGED <<mem, famArgs, po_ret, processed, skipped, off_visualset,
                   off_first_mesh, off_verts, num_verts, pathVars, walkVars, strVars, otherVars>>

\* Lines 230-233: the first mesh pointer.
f_FirstMesh ==
    /\ pc = "f_firstmesh"
    /\ LET r == get_pointer_path(mem, off_visualset + 12, Some(<<0>>))
       IN  CASE r.tag = "Ok" ->
                  /\ off_first_mesh' = r.val
                  /\ pc' = "f_vertptr"
                  /\ UNCHANGED <<i, outcome>>
             [] r.tag = "Err" -> Continue /\ UNCHANGED off_first_mesh
             [] OTHER -> EndWith(r.tag) /\ UNCHANGED off_first_mesh
    /\ UNCHANGED <<mem, famArgs, po_ret, processed, skipped, off_visualset,
                   off_verts, num_verts, pathVars, walkVars, strVars, otherVars>>

\* Lines 238-241: the vertex pointer.
f_VertPtr ==
    /\ pc = "f_vertptr"
    /\ LET r == get_pointer_path(mem, off_first_mesh, None)
       IN  CASE r.tag = "Ok" ->
                  /\ off_verts' = r.val
                  /\ pc' = "f_numverts"
                  /\ UNCHANGED <<i, outcome>>
             [] r.tag = "Err" -> Continue /\ UNCHANGED off_verts
             [] OTHER -> EndWith(r.tag) /\ UNCHANGED off_verts
    /\ UNCHANGED <<mem, famArgs, po_ret, processed, skipped, off_visualset,
                   off_first_mesh, num_verts, pathVars, walkVars, strVars, otherVars>>

\* Lines 247-250: the vertex count, at off_first_mesh + 0x2C.
f_NumVerts ==
    /\ pc = "f_numverts"
    /\ LET r == read_prims(mem, off_first_mesh + 44, 1, 2)
       IN  IF r.tag = "Err" THEN EndWith("Err") /\ UNCHANGED num_verts
           ELSE IF Len(r.val) < 1
           THEN EndWith("Panic") /\ UNCHANGED num_verts        \* vec[0]
           ELSE /\ num_verts' = AsI16(r.val[1])
                /\ pc' = "f_verts"
                /\ UNCHANGED <<i, outcome>>
    /\ UNCHANGED <<mem, famArgs, po_ret, processed, skipped, off_visualset,
                   off_first_mesh, off_verts, pathVars, walkVars, strVars, otherVars>>

\* A usize of the host (64 bits) as four 16-bit limbs, the least first.
\* `v as usize` of an i16 v sign-extends.
AsUsize(v) ==
    IF v >= 0 THEN <<v, 0, 0, 0>> ELSE <<v + 65536, 65535, 65535, 65535>>

\* x * c limb by limb: the limbs of the product modulo 2^64 and the carry
\* out of the top limb.
RECURSIVE MulLimbs(_, _, _)
MulLimbs(x, c, carry) ==
    IF x = <<>> THEN [limbs |-> <<>>, carry |-> carry]
    ELSE CHOOSE res \in
             {[limbs |-> <<(Head(x) * c + carry) % 65536>> \o rest.limbs,
               carry |-> rest.carry] :
                 rest \in {MulLimbs(Tail(x), c, (Head(x) * c + carry) \div 65536)}} : TRUE

\* The count that line 253 asks for, 3 * num_verts as usize, and what
\* becomes of it: the multiplication overflows 64 bits (a panic where
\* overflow is checked, a wrapped count where it is not), and the bytes of
\* the count, 4 each, pass isize::MAX (Vec::with_capacity panics, line 23).
VertexRequest(nv) ==
    CHOOSE res \in
        {[count |-> product.limbs,
          mul_overflow |-> product.carry > 0,
          capacity_overflow |->
              MulLimbs(product.limbs, 4, 0).carry > 0
                  \/ MulLimbs(product.limbs, 4, 0).limbs[4] >= 32768] :
            product \in {MulLimbs(AsUsize(nv), 3, 0)}} : TRUE

\* The number a usize below 2^31 stands for.
UsizeValue(x) == x[1] + 65536 * x[2]

\* Lines 253-257: the vertices, three floats each, and the insert.  A count
\* that cannot be asked for ends the call by a panic, in the multiplication
\* or in the allocation.
f_Verts ==
    /\ pc = "f_verts"
    /\ \E req \in {VertexRequest(num_verts)} :
          IF req.mul_overflow \/ req.capacity_overflow
          THEN EndWith("Panic") /\ UNCHANGED po_ret
          ELSE LET all_verts == read_prims(mem, off_verts, UsizeValue(req.count), 4)
               IN  IF all_verts.tag = "Err" THEN EndWith("Err") /\ UNCHANGED po_ret
                   ELSE /\ po_ret' = Insert(po_ret, off_verts, all_verts.val)
                        /\ Continue
    /\ UNCHANGED <<mem, famArgs, processed, skipped, off_visualset,
                   off_first_mesh, off_verts, num_verts, pathVars, walkVars, strVars, otherVars>>

f_Return ==
    /\ pc = "f_loop"
    /\ i = num_entries
    /\ pc' = "done"
    /\ outcome' = "Ok"
    /\ UNCHANGED <<mem, famVars, pathVars, walkVars, strVars, otherVars>>

NextFam ==
    \/ f_Start \/ f_Filter \/ f_VisualSet \/ f_LodType \/ f_FirstMesh
    \/ f_VertPtr \/ f_NumVerts \/ f_Verts \/ f_Return

-----------------------------------------------------------------------------
(* Families in memory *)

\* The most records a table holds.
MaxRecords == 2

\* What may be wrong with one record: the read of the visual set pointer
\* ("vs"), of the LOD/type pair ("lod"), of the first mesh pointer ("fm"),
\* of the vertex pointer ("vp"), of the vertex count ("cnt") or of the vertex
\* buffer ("buf") fails ("_err": its page is unreadable) or is short
\* ("_short": it lies across the end of the last readable page); or the
\* record has no mesh to read ("no_lod", "no_type").
RecordFaults ==
    {"vs_err", "vs_short", "lod_err", "lod_short", "fm_err", "fm_short",
     "vp_err", "vp_short", "cnt_err", "cnt_short", "buf_err", "buf_short",
     "no_lod", "no_type"}

\* The same for the table: its pointer ("base") or its header ("header").
BaseFaults == {"ok", "base_err", "base_short", "header_err", "header_short"}

FamAddr(bk) == 524288 + (IF bk = "base_short" THEN 4066 ELSE 0)
TableAddr(bk) == 532480 + (IF bk = "header_short" THEN 4086 ELSE 0)
EntriesAddr == 540672

BasePages(bk) ==
    {128, 129, 130, 131, 132}
        \ (CASE bk = "base_err" -> {128}
             [] bk = "base_short" -> {129}
             [] bk = "header_err" -> {130}
             [] bk = "header_short" -> {131}
             [] OTHER -> {})

\* Record r keeps each of its five objects on a page of its own, with a
\* page after it: X (-> visual set), V (the visual set), Y (-> mesh),
\* M (the mesh), and the vertex buffer.
RecBase(r) == 1048576 * (r + 1)
XAddr(r, k) == RecBase(r) + (IF k = "vs_short" THEN 4094 ELSE 0)
VAddr(r, k) == RecBase(r) + 2 * PageSize + (IF k = "lod_short" THEN 4090 ELSE 0)
YAddr(r, k) == RecBase(r) + 4 * PageSize + (IF k = "fm_short" THEN 4094 ELSE 0)
MAddr(r, k) ==
    RecBase(r) + 6 * PageSize
        + (CASE k = "vp_short" -> 4094
             [] k = "cnt_err" -> 4080
             [] k = "cnt_short" -> 4051
             [] OTHER -> 0)
BufAddr(r, k) == RecBase(r) + 8 * PageSize + (IF k = "buf_short" THEN 4090 ELSE 0)

RecPages(r, k) ==
    {PageOf(RecBase(r)) + d : d \in 0..9}
        \ (CASE k = "vs_err" -> {PageOf(RecBase(r))}
             [] k = "vs_short" -> {PageOf(RecBase(r)) + 1}
             [] k = "lod_err" -> {PageOf(RecBase(r)) + 2}
             [] k = "lod_short" -> {PageOf(RecBase(r)) + 3}
             [] k = "fm_err" -> {PageOf(RecBase(r)) + 4}
             [] k = "fm_short" -> {PageOf(RecBase(r)) + 5}
             [] k = "vp_err" -> {PageOf(RecBase(r)) + 6}
             [] k \in {"vp_short", "cnt_err", "cnt_short"} -> {PageOf(RecBase(r)) + 7}
             [] k = "buf_err" -> {PageOf(RecBase(r)) + 8}
             [] k = "buf_short" -> {PageOf(RecBase(r)) + 9}
             [] OTHER -> {})

\* The cells of record r: entry+4 -> X, X -> V, V+4 = (LOD count, type),
\* V+0xC -> Y, Y -> M, M -> buffer, M+0x2C = vertex count, and the buffer's
\* floats (as bit patterns).  nv is the count as a 16-bit pattern.
RecCells(r, k, nv) ==
    LET lod == IF k = "no_lod" THEN 0 ELSE 1
        type == IF k = "no_type" THEN 1 ELSE 0
        floats == IF nv >= 32768 THEN 0 ELSE 3 * nv
    IN  (EntriesAddr + r * 20 + 4 :> XAddr(r, k))
            @@ (XAddr(r, k) :> VAddr(r, k))
            @@ (VAddr(r, k) + 4 :> lod + 65536 * type)
            @@ (VAddr(r, k) + 12 :> YAddr(r, k))
            @@ (YAddr(r, k) :> MAddr(r, k))
            @@ (MAddr(r, k) :> BufAddr(r, k))
            @@ (MAddr(r, k) + 44 :> nv)
            @@ [a \in {BufAddr(r, k) + 4 * j : j \in 0..(floats - 1)} |->
                    1000 * (r + 1) + (a - BufAddr(r, k)) \div 4]

BaseCells(bk, n) ==
    (FamAddr(bk) + 28 :> TableAddr(bk))
        @@ (TableAddr(bk) + 4 :> EntriesAddr)
        @@ (TableAddr(bk) + 8 :> 0)
        @@ (TableAddr(bk) + 12 :> n)

RecKind(faultRec, faultKind, r) == IF r + 1 = faultRec THEN faultKind ELSE "ok"

FamilyImage(n, bk, faultRec, faultKind, nv) ==
    LET cells == [k \in 0..n |->
                    IF k = 0 THEN BaseCells(bk, n)
                    ELSE RecCells(k - 1, RecKind(faultRec, faultKind, k - 1), nv)]
    IN  [readable |-> BasePages(bk)
                        \cup UNION {RecPages(r, RecKind(faultRec, faultKind, r)) : r \in 0..(n - 1)},
         bytes |-> CellBytes(MergeCells(cells, n))]

\* Vertex counts tried, as 16-bit patterns: 0, 1, 2 and -1.
VertCounts == {0, 1, 2, 65535}

\* The calls tried: n records, at most one fault (in the table when bk is
\* not "ok", else in record faultRec - 1 when faultRec > 0).
FamilyCases ==
    {c \in [n : 0..MaxRecords, bk : BaseFaults, faultRec : 0..MaxRecords,
            faultKind : RecordFaults, nv : VertCounts] :
        /\ c.faultRec <= c.n
        /\ c.faultRec = 0 => c.faultKind = "vs_err"
        /\ c.bk # "ok" => c.faultRec = 0 /\ c.nv = 1}

InitFam ==
    /\ \E c \in FamilyCases :
          /\ mem = FamilyImage(c.n, c.bk, c.faultRec, c.faultKind, c.nv)
          /\ offset_family = FamAddr(c.bk)
    /\ keep_instead \in BOOLEAN
    /\ indices \in SUBSET (0..(MaxRecords - 1))
    /\ first_entry = 0 /\ num_entries = 0 /\ i = 0
    /\ po_ret = EmptyMap /\ processed = {} /\ skipped = {}
    /\ off_visualset = 0 /\ off_first_mesh = 0 /\ off_verts = 0 /\ num_verts = 0
    /\ pc = "f_start"
    /\ outcome = "none"
    /\ IdlePath /\ IdleWalk /\ IdleStr
    /\ IdlePrim /\ IdleWrite /\ IdleTable /\ IdleTarget

SpecFam == InitFam /\ [][NextFam]_vars

-----------------------------------------------------------------------------
(* What the specification says of an extraction, read off the image *)

\* All len bytes at a can be read.
WholeRead(a, len) == \A b \in a..(a + len - 1) : PageOf(b) \in mem.readable

SpecTable == PrimAt(mem, offset_family + 28, 4)
SpecEntry(r) == PrimAt(mem, SpecTable + 4, 4) + 20 * r
SpecVisualSet(r) == IterDeref(mem, SpecEntry(r) + 4, <<0>>, 1)
SpecMesh(r) == IterDeref(mem, SpecVisualSet(r) + 12, <<0>>, 1)
SpecVerts(r) == PrimAt(mem, SpecMesh(r), 4)
SpecCount(r) == AsI16(PrimAt(mem, SpecMesh(r) + 44, 2))

\* The table pointer and the three-word header are read whole.
BaseWhole == WholeRead(offset_family + 28, 4) /\ WholeRead(SpecTable + 4, 12)

\* The four per-record hops before the mesh are read whole.
HopsWhole(r) ==
    /\ AllHopsReadable(mem, SpecEntry(r) + 4, <<0>>)
    /\ WholeRead(SpecVisualSet(r) + 4, 4)
    /\ AllHopsReadable(mem, SpecVisualSet(r) + 12, <<0>>)
    /\ WholeRead(SpecMesh(r), 4)

\* The record's visual set has a mesh to read.
HasMesh(r) ==
    /\ AsI16(PrimAt(mem, SpecVisualSet(r) + 4, 2)) > 0
    /\ AsI16(PrimAt(mem, SpecVisualSet(r) + 6, 2)) = 0

\* A mesh was found for record r, and its vertex count or its vertex buffer
\* is not read whole.
MeshReadFails(r) ==
    /\ HopsWhole(r) /\ HasMesh(r)
    /\ \/ ~WholeRead(SpecMesh(r) + 44, 2)
       \/ SpecCount(r) >= 0 /\ ~WholeRead(SpecVerts(r), 12 * SpecCount(r))

\* A processed record holds a negative vertex count (not a read failure).
NegativeCount ==
    \E r \in processed :
        /\ HopsWhole(r) /\ HasMesh(r)
        /\ WholeRead(SpecMesh(r) + 44, 2) /\ SpecCount(r) < 0

\* C4: with keep_instead = false the records in the index set are skipped
\* and the others processed; with keep_instead = true the records in the
\* set are processed and the others skipped.
C4_FilterAsDocumented ==
    /\ \A r \in skipped : IF keep_instead THEN r \notin indices ELSE r \in indices
    /\ \A r \in processed : IF keep_instead THEN r \in indices ELSE r \notin indices

\* C9: the call returns Err exactly when the read of the table pointer or
\* header, or of a found mesh's vertex count or vertex buffer, fails or is
\* short; a failed or short read at any other hop only skips its record,
\* and the call goes through all the records and returns Ok.
C9_FailureClasses ==
    (pc = "done" /\ ~NegativeCount) =>
        IF ~BaseWhole \/ \E r \in processed : MeshReadFails(r)
        THEN outcome = "Err"
        ELSE /\ outcome = "Ok"
             /\ processed \cup skipped = 0..(num_entries - 1)

\* No read of the image is short: every page above an object is unreadable
\* only if the object's own page is.
NoShortRead ==
    \A p \in mem.readable :
        (p + 1) \notin mem.readable =>
            \A b \in DOMAIN mem.bytes : PageOf(b) = p => PageOf(b + 3) = p

-----------------------------------------------------------------------------
(* memory.rs read_string *)

\* core::str's width of a UTF-8 sequence by its first byte (0: no sequence
\* starts with it).
utf8_char_width(first) ==
    CASE first < 128 -> 1
      [] first >= 194 /\ first <= 223 -> 2
      [] first >= 224 /\ first <= 239 -> 3
      [] first >= 240 /\ first <= 244 -> 4
      [] OTHER -> 0

IsCont(b) == b >= 128 /\ b <= 191

\* The second byte core::str accepts after the first of a 3- or 4-byte
\* sequence.
SecondOk(first, second) ==
    CASE first = 224 -> second >= 160 /\ second <= 191
      [] first >= 225 /\ first <= 236 -> IsCont(second)
      [] first = 237 -> second >= 128 /\ second <= 159
      [] first >= 238 /\ first <= 239 -> IsCont(second)
      [] first = 240 -> second >= 144 /\ second <= 191
      [] first >= 241 /\ first <= 243 -> IsCont(second)
      [] first = 244 -> second >= 128 /\ second <= 143
      [] OTHER -> FALSE

\* Whether a whole valid sequence starts at v[index].
SeqValidAt(v, index) ==
    LET w == utf8_char_width(v[index])
    IN  CASE w = 1 -> TRUE
          [] w = 2 -> index + 1 <= Len(v) /\ IsCont(v[index + 1])
          [] w = 3 -> /\ index + 2 <= Len(v)
                      /\ SecondOk(v[index], v[index + 1])
                      /\ IsCont(v[index + 2])
          [] w = 4 -> /\ index + 3 <= Len(v)
                      /\ SecondOk(v[index], v[index + 1])
                      /\ IsCont(v[index + 2])
                      /\ IsCont(v[index + 3])
          [] OTHER -> FALSE

\* core::str's run_utf8_validation from index (1-based): the number of
\* bytes verified before the first invalid sequence, Len(v) when there is
\* none.
RECURSIVE ValidUpToFrom(_, _)
ValidUpToFrom(v, index) ==
    IF index > Len(v) THEN Len(v)
    ELSE IF SeqValidAt(v, index)
         THEN ValidUpToFrom(v, index + utf8_char_width(v[index]))
         ELSE index - 1

\* String::from_utf8(v): Ok, or the error's valid_up_to().
from_utf8(v) ==
    LET upto == ValidUpToFrom(v, 1)
    IN  [ok |-> upto = Len(v), valid_up_to |-> upto]

\* bytes.iter().position(|&x| x == 0) and the cut there.
RECURSIVE TruncAtNull_keep(_)
TruncAtNull_keep(v) ==
    IF v = <<>> THEN <<>>
    ELSE IF Head(v) = 0 THEN <<0>>
    ELSE <<Head(v)>> \o TruncAtNull_keep(Tail(v))

RECURSIVE TruncAtNull(_)
TruncAtNull(v) ==
    IF v = <<>> \/ Head(v) = 0 THEN <<>>
    ELSE <<Head(v)>> \o TruncAtNull(Tail(v))

\* Line 48: the first read.
s_Read ==
    /\ pc = "s_read"
    /\ LET r == read_prims(mem, str_offset, str_n, 1)
       IN  IF r.tag = "Err"
           THEN /\ pc' = "done"
                /\ outcome' = "Err"
                /\ bytes' = bytes
           ELSE /\ bytes' = r.val
                /\ pc' = "s_decode"
                /\ outcome' = outcome
    /\ UNCHANGED <<mem, str_offset, str_n, string, pathVars, walkVars, famVars,
                   otherVars>>

\* Lines 50-57: the cut at the null, the decoding, and on a decoding error
\* the second read of the valid prefix, both results of which are
\* unwrapped.
s_Decode ==
    /\ pc = "s_decode"
    /\ LET trunc == TruncAtNull(bytes)
           d == from_utf8(trunc)
       IN  IF d.ok
           THEN /\ string' = trunc
                /\ outcome' = "Ok"
           ELSE LET again == read_prims(mem, str_offset, d.valid_up_to, 1)
                IN  IF again.tag = "Err" \/ ~from_utf8(again.val).ok
                    THEN /\ outcome' = "Panic"
                         /\ string' = string
                    ELSE /\ string' = again.val
                         /\ outcome' = "Ok"
    /\ pc' = "done"
    /\ UNCHANGED <<mem, str_offset, str_n, bytes, pathVars, walkVars, famVars,
                   otherVars>>

NextStr == s_Read \/ s_Decode

-----------------------------------------------------------------------------
(* Strings in memory *)

\* The longest buffer tried, in bytes.
MaxStr == 4

\* The bytes tried: the null, 'A', the first byte of a 2-byte sequence, a
\* continuation byte, the first byte of a 3-byte sequence, and 0xED, after
\* which this continuation byte would encode a surrogate.
StrBytes == {0, 65, 195, 169, 226, 237}

\* Where the buffer lies: with -1 all of it is readable, with j >= 0 only
\* its first j bytes are (the rest is on an unreadable page).
StrSplits == (-1)..MaxStr

StrAddr(split) == IF split = -1 THEN 65536 ELSE 69632 - split

StringImage(content, split) ==
    [readable |-> IF split = -1 THEN {16, 17} ELSE {16},
     bytes |-> [b \in StrAddr(split)..(StrAddr(split) + Len(content) - 1) |->
                    content[b - StrAddr(split) + 1]]]

InitStr ==
    /\ \E content \in [1..MaxStr -> StrBytes], split \in StrSplits :
          /\ mem = StringImage(content, split)
          /\ str_offset = StrAddr(split)
    /\ str_n \in 0..MaxStr
    /\ bytes = <<>>
    /\ string = <<>>
    /\ pc = "s_read"
    /\ outcome = "none"
    /\ IdlePath /\ IdleWalk /\ IdleFam
    /\ IdlePrim /\ IdleWrite /\ IdleTable /\ IdleTarget

SpecStr == InitStr /\ [][NextStr]_vars

\* The code point a sequence of 1 to 4 bytes would encode, taking six bits
\* of every byte after the first.
RECURSIVE ContBits(_, _)
ContBits(c, acc) ==
    IF c = <<>> THEN acc ELSE ContBits(Tail(c), acc * 64 + (Head(c) % 64))

\* c is the UTF-8 encoding of one Unicode scalar value: the first byte
\* announces the length, the others are continuation bytes, the encoding is
\* the shortest one, and the value is no surrogate and at most 0x10FFFF.
EncodesScalar(c) ==
    LET n == Len(c)
        lead == c[1]
        cp == ContBits(Tail(c),
                       CASE n = 1 -> lead
                         [] n = 2 -> lead % 32
                         [] n = 3 -> lead % 16
                         [] OTHER -> lead % 8)
    IN  /\ n \in 1..4
        /\ CASE n = 1 -> lead < 128
             [] n = 2 -> lead \div 32 = 6
             [] n = 3 -> lead \div 16 = 14
             [] OTHER -> lead \div 8 = 30
        /\ \A k \in 2..n : c[k] \div 64 = 2
        /\ CASE n = 1 -> TRUE
             [] n = 2 -> cp >= 128
             [] n = 3 -> cp >= 2048 /\ ~(cp >= 55296 /\ cp <= 57343)
             [] OTHER -> cp >= 65536 /\ cp <= 1114111

\* v is valid UTF-8: a concatenation of encodings of scalar values.
RECURSIVE IsUtf8(_)
IsUtf8(v) ==
    \/ v = <<>>
    \/ \E k \in 1..4 :
          /\ k <= Len(v)
          /\ EncodesScalar(SubSeq(v, 1, k))
          /\ IsUtf8(SubSeq(v, k + 1, Len(v)))

\* The bytes of the image the first read can transfer: the first str_n
\* bytes at str_offset that are readable.
ReadableBytes ==
    LET k == CHOOSE k \in 0..str_n :
                 /\ WholeRead(str_offset, k)
                 /\ k < str_n => PageOf(str_offset + k) \notin mem.readable
    IN  [j \in 1..k |-> ByteAt(mem, str_offset + j - 1)]

\* The part of v before its first null byte (all of v when it has none).
BeforeNull(v) ==
    LET stops == {k \in 1..Len(v) : v[k] = 0}
    IN  IF stops = {} THEN v
        ELSE SubSeq(v, 1, (CHOOSE k \in stops : \A j \in stops : k <= j) - 1)

\* The longest prefix of v that is valid UTF-8.
LongestUtf8Prefix(v) ==
    LET good == {k \in 0..Len(v) : IsUtf8(SubSeq(v, 1, k))}
    IN  SubSeq(v, 1, CHOOSE k \in good : \A j \in good : j <= k)

\* C10: read_string returns the longest valid-UTF-8 prefix of the bytes
\* before the first null among the first n readable bytes; it fails only
\* when bytes were asked for and the first of them cannot be read.
C10_LongestValidPrefixBeforeNull ==
    pc = "done" =>
        IF str_n > 0 /\ PageOf(str_offset) \notin mem.readable
        THEN outcome = "Err"
        ELSE /\ outcome = "Ok"
             /\ string = LongestUtf8Prefix(BeforeNull(ReadableBytes))
             /\ IsUtf8(string)

\* A null cuts the bytes read and an incomplete sequence before the null
\* cuts the text: of C3 A9 ED 00 the two-byte character C3 A9 is returned.
C10_Witness ==
    /\ pc = "done" /\ outcome = "Ok"
    /\ str_n = 4
    /\ bytes = <<195, 169, 237, 0>>
    /\ string = <<195, 169>>

-----------------------------------------------------------------------------
(* memory.rs read_prims, called on its own *)

\* Lines 21-34: the transfer and the set_len.
rp_Call ==
    /\ pc = "rp_call"
    /\ LET r == read_prims(mem, rp_offset, rp_n, rp_size)
       IN  /\ rp_ret' = r.val
           /\ outcome' = r.tag
    /\ pc' = "done"
    /\ UNCHANGED <<mem, rp_offset, rp_n, rp_size, pathVars, walkVars, famVars,
                   strVars, writeVars, tableVars, writes>>

NextPrims == rp_Call

\* The most elements asked for.
MaxPrims == 2

\* The element sizes tried: u8, i16, u32/f32.
PrimSizes == {1, 2, 4}

\* The images hold a byte pattern on pages 16 and 17; the region read starts
\* back bytes before the end of page 16.
PrimBoundary == 17 * PageSize

PrimStrides == {1, 37}

PrimImage(rd, stride) ==
    [readable |-> rd,
     bytes |-> [b \in (PrimBoundary - 4 * MaxPrims)..(PrimBoundary + 4 * MaxPrims - 1) |->
                    ((b - PrimBoundary + 4 * MaxPrims + 1) * stride) % 128]]

InitPrims ==
    /\ \E rd \in SUBSET {16, 17}, stride \in PrimStrides :
          mem = PrimImage(rd, stride)
    /\ \E back \in 0..(4 * MaxPrims) : rp_offset = PrimBoundary - back
    /\ rp_n \in 0..MaxPrims
    /\ rp_size \in PrimSizes
    /\ rp_ret = <<>>
    /\ pc = "rp_call"
    /\ outcome = "none"
    /\ IdlePath /\ IdleWalk /\ IdleFam /\ IdleStr
    /\ IdleWrite /\ IdleTable /\ IdleTarget

SpecPrims == InitPrims /\ [][NextPrims]_vars

\* The bytes the transfer copies: the longest readable prefix of the
\* rp_n * rp_size bytes at rp_offset.
Transferred ==
    CHOOSE t \in 0..(rp_n * rp_size) :
        /\ WholeRead(rp_offset, t)
        /\ t < rp_n * rp_size => PageOf(rp_offset + t) \notin mem.readable

\* The little-endian value of the size bytes at a.
ElementAt(a, size) ==
    CASE size = 1 -> ByteAt(mem, a)
      [] size = 2 -> ByteAt(mem, a) + 256 * ByteAt(mem, a + 1)
      [] OTHER -> ByteAt(mem, a) + 256 * ByteAt(mem, a + 1)
                    + 65536 * ByteAt(mem, a + 2) + 16777216 * ByteAt(mem, a + 3)

-----------------------------------------------------------------------------
(* memory.rs write_prims *)

\* The bytes, starting at a, that lie in writable pages before the first
\* page that is not, and at most len of them.
RECURSIVE WritableRun(_, _, _)
WritableRun(wr, a, len) ==
    IF len = 0 \/ PageOf(a) \notin wr THEN 0
    ELSE LET inPage == PageSize - (a % PageSize)
         IN  IF len <= inPage THEN len
             ELSE inPage + WritableRun(wr, a + inPage, len - inPage)

\* Byte k (from 0) of the slice over data, elements of size bytes each,
\* little-endian.
SliceByte(data, size, k) == (data[(k \div size) + 1] \div Pow256(k % size)) % 256

\* process_vm_writev with one local and one remote vector: the image after
\* the transfer and the number of bytes copied, or an error when bytes were
\* to be written and none could be.
process_vm_writev(m, wr, a, data, size) ==
    LET len == Len(data) * size
        copied == WritableRun(wr, a, len)
    IN  IF len > 0 /\ copied = 0
        THEN [tag |-> "Err", copied |-> 0, mem |-> m]
        ELSE [tag |-> "Ok", copied |-> copied,
              mem |-> [m EXCEPT !.bytes =
                         [b \in DOMAIN m.bytes \cup (a..(a + copied - 1)) |->
                             IF b \in a..(a + copied - 1)
                             THEN SliceByte(data, size, b - a)
                             ELSE m.bytes[b]]]]

\* The value of Ok(()).
Unit == <<>>

\* Lines 106-116.  bytes_written keeps the count that `let _ =` drops.
wp_Call ==
    /\ pc = "wp_call"
    /\ LET r == process_vm_writev(mem, writable, wp_offset, wp_data, wp_size)
       IN  IF r.tag = "Err"
           THEN /\ outcome' = "Err"
                /\ UNCHANGED <<mem, bytes_written, wp_ret>>
           ELSE /\ mem' = r.mem
                /\ bytes_written' = r.copied
                /\ wp_ret' = Unit
                /\ outcome' = "Ok"
    /\ pc' = "done"
    /\ UNCHANGED <<writable, wp_offset, wp_size, wp_data, pathVars, walkVars,
                   famVars, strVars, primVars, tableVars, writes>>

NextWrite == wp_Call

\* The element sizes and values written.
WriteSizes == {1, 4}
WriteVals == {1, 258}

InitWrite ==
    /\ mem = [readable |-> {16, 17}, bytes |-> EmptyMap]
    /\ writable \in SUBSET {16, 17}
    /\ \E back \in 0..(4 * MaxPrims) : wp_offset = PrimBoundary - back
    /\ wp_size \in WriteSizes
    /\ wp_data \in {d \in SeqsUpTo(WriteVals, MaxPrims) :
                        \A k \in 1..Len(d) : wp_size = 1 => d[k] < 256}
    /\ bytes_written = 0
    /\ wp_ret = <<>>
    /\ pc = "wp_call"
    /\ outcome = "none"
    /\ IdlePath /\ IdleWalk /\ IdleFam /\ IdleStr
    /\ IdlePrim /\ IdleTable /\ IdleTarget

SpecWrite == InitWrite /\ [][NextWrite]_vars

\* The bytes of the request that the target's pages accept.
WritablePrefix ==
    CHOOSE t \in 0..(Len(wp_data) * wp_size) :
        /\ \A b \in wp_offset..(wp_offset + t - 1) : PageOf(b) \in writable
        /\ t < Len(wp_data) * wp_size => PageOf(wp_offset + t) \notin writable

\* C12: a write that transfers some but not all of the bytes returns a
\* success that carries the number of bytes copied; a write that transfers
\* none of its bytes returns the error.
C12_ShortWriteCarriesCount ==
    pc = "done" =>
        /\ (0 < WritablePrefix /\ WritablePrefix < Len(wp_data) * wp_size) =>
              /\ outcome = "Ok"
              /\ wp_ret = <<WritablePrefix>>
        /\ (WritablePrefix = 0 /\ Len(wp_data) > 0) => outcome = "Err"

\* What does hold: the bytes accepted are written, the count is dropped,
\* and a short write returns what a complete one returns.
WriteDropsCount ==
    (pc = "done" /\ outcome = "Ok") =>
        /\ bytes_written = WritablePrefix
        /\ \A k \in 0..(WritablePrefix - 1) :
              ByteAt(mem, wp_offset + k) = SliceByte(wp_data, wp_size, k)
        /\ wp_ret = Unit

-----------------------------------------------------------------------------
(* utils.rs read_object_names_table *)

\* memory.rs read_string as one call on an image that does not change.
read_string(m, offset, n) ==
    LET r == read_prims(m, offset, n, 1)
    IN  IF r.tag = "Err" THEN [tag |-> "Err", val |-> <<>>]
        ELSE LET trunc == TruncAtNull(r.val)
                 d == from_utf8(trunc)
             IN  IF d.ok THEN [tag |-> "Ok", val |-> trunc]
                 ELSE LET again == read_prims(m, offset, d.valid_up_to, 1)
                      IN  IF again.tag = "Err" \/ ~from_utf8(again.val).ok
                          THEN [tag |-> "Panic", val |-> <<>>]
                          ELSE [tag |-> "Ok", val |-> again.val]

\* Line 280: the pointer to the next entry, kept as a Result.
nt_ReadNext ==
    /\ pc = "nt_loop"
    /\ loop_j < num_names
    /\ LET r == get_pointer_path(mem, cur_offset, None)
       IN  IF r.tag = "Panic"
           THEN /\ pc' = "done"
                /\ outcome' = "Panic"
                /\ res_off_names_next' = res_off_names_next
           ELSE /\ res_off_names_next' = r
                /\ pc' = "nt_name"
                /\ outcome' = outcome
    /\ UNCHANGED <<mem, off_names_first, num_names, cur_offset, loop_j, names_ret,
                   pathVars, walkVars, famVars, strVars, primVars, writeVars, writes>>

\* Lines 282-291: the name pointer at +0xC, the string of at most 64 bytes,
\* and the push.
nt_ReadName ==
    /\ pc = "nt_name"
    /\ LET p == get_pointer_path(mem, cur_offset + 12, None)
           name == read_string(mem, p.val, 64)
       IN  CASE p.tag = "Panic" ->
                  /\ pc' = "done" /\ outcome' = "Panic"
                  /\ names_ret' = names_ret
             [] p.tag = "Err" ->
                  /\ names_ret' = Append(names_ret, <<>>)
                  /\ pc' = "nt_advance" /\ outcome' = outcome
             [] p.tag = "Ok" /\ name.tag = "Panic" ->
                  /\ pc' = "done" /\ outcome' = "Panic"
                  /\ names_ret' = names_ret
             [] p.tag = "Ok" /\ name.tag = "Err" ->
                  /\ names_ret' = Append(names_ret, <<>>)
                  /\ pc' = "nt_advance" /\ outcome' = outcome
             [] OTHER ->
                  /\ names_ret' = Append(names_ret, name.val)
                  /\ pc' = "nt_advance" /\ outcome' = outcome
    /\ UNCHANGED <<mem, off_names_first, num_names, cur_offset, loop_j,
                   res_off_names_next, pathVars, walkVars, famVars, strVars,
                   primVars, writeVars, writes>>

\* Lines 293-297: on to the next entry when its pointer was read and is
\* not null.
nt_Advance ==
    /\ pc = "nt_advance"
    /\ cur_offset' = IF res_off_names_next.tag = "Ok" /\ res_off_names_next.val > 0
                     THEN res_off_names_next.val
                     ELSE cur_offset
    /\ loop_j' = loop_j + 1
    /\ pc' = "nt_loop"
    /\ UNCHANGED <<mem, outcome, off_names_first, num_names, res_off_names_next,
                   names_ret, pathVars, walkVars, famVars, strVars, primVars,
                   writeVars, writes>>

\* Line 300.
nt_Return ==
    /\ pc = "nt_loop"
    /\ loop_j = num_names
    /\ pc' = "done"
    /\ outcome' = "Ok"
    /\ UNCHANGED <<mem, tableVars, pathVars, walkVars, famVars, strVars,
                   primVars, writeVars, writes>>

NextTable == nt_ReadNext \/ nt_ReadName \/ nt_Advance \/ nt_Return

-----------------------------------------------------------------------------
(* Name lists in memory *)

\* The longest name list, and the most names asked for.
MaxNames == 2

\* What may be wrong with one entry: its next pointer or its name pointer
\* is on an unreadable page ("_err") or lies across the end of the last
\* readable page ("_short"); its string is unreadable, or cut by the end of
\* the readable pages, or is not UTF-8.
EntryFaults ==
    {"next_err", "next_short", "name_err", "name_short", "str_err", "str_short",
     "str_bad"}

\* Entry k has four pages: the entry lies before the end of the first, its
\* string before the end of the third.
EntryEnd(k) == (16 * k + 1) * PageSize
StringEnd(k) == (16 * k + 3) * PageSize

EntryAddr(k, kind) ==
    EntryEnd(k) - (CASE kind = "next_err" -> 4
                     [] kind = "next_short" -> 2
                     [] kind = "name_err" -> 8
                     [] kind = "name_short" -> 14
                     [] OTHER -> 16)

NameStrAddr(k, kind) == StringEnd(k) - (IF kind = "str_short" THEN 2 ELSE 16)

EntryPages(k, kind) ==
    {16 * k + d : d \in 0..3}
        \ (CASE kind = "next_err" -> {16 * k}
             [] kind \in {"next_short", "name_err", "name_short"} -> {16 * k + 1}
             [] kind = "str_err" -> {16 * k + 2}
             [] kind = "str_short" -> {16 * k + 3}
             [] OTHER -> {})

\* The name of entry k: two letters, or a letter and the first byte of a
\* two-byte sequence.
EntryName(k, kind) == IF kind = "str_bad" THEN <<64 + k, 195>> ELSE <<64 + k, 66>>

\* The bytes of entry k: +0 -> the next entry, +0xC -> its string.
EntryBytes(k, kind, next) ==
    LET E == EntryAddr(k, kind)
        S == NameStrAddr(k, kind)
    IN  CellBytes((E :> next) @@ (E + 12 :> S))
            @@ [b \in S..(S + 1) |-> EntryName(k, kind)[b - S + 1]]

TableImage(n, term, faultEntry, faultKind) ==
    LET kind(k) == IF k = faultEntry THEN faultKind ELSE "ok"
        next(k) == IF k < n THEN EntryAddr(k + 1, kind(k + 1))
                   ELSE IF term = "cycle" THEN EntryAddr(1, kind(1)) ELSE 0
        parts == [k \in 0..n |-> IF k = 0 THEN EmptyMap
                                 ELSE EntryBytes(k, kind(k), next(k))]
    IN  [readable |-> UNION {EntryPages(k, kind(k)) : k \in 1..n},
         bytes |-> MergeCells(parts, n)]

\* The calls tried: a list of n entries with at most one fault, ended by a
\* null or by a pointer back to its first entry.
TableCases ==
    {c \in [n : 1..MaxNames, term : {"null", "cycle"}, faultEntry : 0..MaxNames,
            faultKind : EntryFaults] :
        /\ c.faultEntry <= c.n
        /\ c.faultEntry = 0 => c.faultKind = "next_err"}

InitTable ==
    /\ \E c \in TableCases :
          /\ mem = TableImage(c.n, c.term, c.faultEntry, c.faultKind)
          /\ off_names_first = EntryAddr(1, IF c.faultEntry = 1 THEN c.faultKind ELSE "ok")
    /\ num_names \in 0..(MaxNames + 1)
    /\ cur_offset = off_names_first
    /\ loop_j = 0
    /\ res_off_names_next = [tag |-> "none", val |-> 0]
    /\ names_ret = <<>>
    /\ pc = "nt_loop"
    /\ outcome = "none"
    /\ IdlePath /\ IdleWalk /\ IdleFam /\ IdleStr
    /\ IdlePrim /\ IdleWrite /\ IdleTarget

SpecTableRead == InitTable /\ [][NextTable]_vars

\* The entry the k-th pass of the loop reads, as the doc comment has it: the
\* next entry when the pointer to it can be read and is not null, else the
\* same entry again.
RECURSIVE EntryAt(_)
EntryAt(k) ==
    IF k = 1 THEN off_names_first
    ELSE LET prev == EntryAt(k - 1)
         IN  IF Readable32(mem, prev) /\ PrimAt(mem, prev, 4) > 0
             THEN PrimAt(mem, prev, 4)
             ELSE prev

\* The name read of the k-th pass fails: the name pointer or the first byte
\* of the string cannot be read.
NameReadFails(k) ==
    \/ PageOf(EntryAt(k) + 12) \notin mem.readable
    \/ /\ Readable32(mem, EntryAt(k) + 12)
       /\ PageOf(PrimAt(mem, EntryAt(k) + 12, 4)) \notin mem.readable

\* C13: read_object_names_table returns, and returns exactly num_names
\* strings, whatever the image: reads may fail, the next pointer may be
\* null, the list may be cyclic; a failed name read leaves an empty string
\* at its position.
C13_ExactlyNumNames ==
    pc = "done" =>
        /\ outcome = "Ok"
        /\ Len(names_ret) = num_names
        /\ \A k \in 1..num_names : NameReadFails(k) => names_ret[k] = <<>>

-----------------------------------------------------------------------------
(* Termination of the hierarchy walks *)

\* The walks of InitWalk with one name table: which names the nodes bear
\* does not bear on where the walk goes.
InitWalkFair == InitWalk /\ object_names = <<"A", "B">>

\* The walk is one sequential call: while its next step can be taken, it
\* is taken.  At most one of the four steps is enabled at a time.
SpecWalkFair ==
    /\ InitWalkFair
    /\ [][NextWalk]_vars
    /\ WF_vars(w_Root) /\ WF_vars(w_Name) /\ WF_vars(w_Next) /\ WF_vars(w_Return)

\* Following the chain from a, the null sentinel or a node with a read that
\* is not whole is reached within fuel further nodes.
RECURSIVE EndsFrom(_, _)
EndsFrom(a, fuel) ==
    IF a = 0 THEN TRUE
    ELSE IF ~NameReadable(a) \/ ~NextReadable(a) THEN TRUE
    ELSE IF fuel = 0 THEN FALSE
    ELSE EndsFrom(RawNext(a), fuel - 1)

\* The chain from the root ends after finitely many nodes.  An image holds
\* at most MaxNodes nodes, so a chain that passes MaxNodes + 1 readable
\* nodes goes round a cycle.
ChainEnds == ~RootReadable \/ EndsFrom(StartNode, MaxNodes)

\* C14: on an image that does not change, a walk whose chain reaches the
\* null sentinel or a failing read after finitely many nodes comes to its
\* end, and a walk whose chain cycles through readable nodes never does.
C14_EndsIffChainEnds ==
    /\ ChainEnds => <>(pc = "done")
    /\ ~ChainEnds => [](pc # "done")

\* A chain of three readable nodes ended by the null sentinel, walked to
\* its end.
C14_Witness ==
    /\ pc = "done" /\ outcome = "Ok"
    /\ ChainEnds /\ AllReadsSucceed
    /\ Len(SpecChain) = 3
    /\ visited = SpecChain

\* A walk round a cycle of readable nodes goes on after every node of the
\* image has been recorded.
CycleWalked ==
    /\ ~ChainEnds
    /\ pc = "w_next"
    /\ Len(visited) > MaxNodes

-----------------------------------------------------------------------------
(* read_string while the target process runs *)

\* The most changes the target makes to its memory during one call.
MaxTargetWrites == 1

\* The target stores a byte in the buffer, or unmaps one of its pages.
\* Nothing orders this with the reads of the call.
t_WriteString ==
    /\ pc \in {"s_read", "s_decode"}
    /\ writes < MaxTargetWrites
    /\ \/ \E b \in str_offset..(str_offset + MaxStr - 1), v \in StrBytes :
            /\ ByteAt(mem, b) # v
            /\ mem' = [mem EXCEPT !.bytes[b] = v]
       \/ \E p \in mem.readable : mem' = [mem EXCEPT !.readable = @ \ {p}]
    /\ writes' = writes + 1
    /\ UNCHANGED <<pc, outcome, pathVars, walkVars, famVars, strVars, primVars,
                   writeVars, tableVars>>

\* The calls that ask for the whole of a readable buffer.
InitStrTarget ==
    /\ InitStr
    /\ str_offset = StrAddr(-1)
    /\ str_n = MaxStr

NextStrTarget == s_Read \/ s_Decode \/ t_WriteString

SpecStrTarget == InitStrTarget /\ [][NextStrTarget]_vars

\* C15: whatever the target does to its memory between the reads of one
\* read_string call, the call returns a valid text value or the error of a
\* failed read, and ends in no other way.
C15_ReturnsTextOrError ==
    pc = "done" =>
        /\ outcome \in {"Ok", "Err"}
        /\ outcome = "Ok" => IsUtf8(string)

\* What the call does when the target keeps still between its two reads.
StillTargetNoAbort ==
    (pc = "done" /\ writes = 0) => (outcome \in {"Ok", "Err"} /\ IsUtf8(string))

-----------------------------------------------------------------------------
(* The unique-name registry when names repeat *)

\* C16: at every point of the unique-name walk the registry has one entry
\* for each name borne by a node recorded so far, the address under a name
\* is that of the node recorded last among those that bear it, and the
\* registry has no more entries than nodes were recorded.
C16_LastWriterWins ==
    variant = "names" =>
        /\ Cardinality(DOMAIN ret) <= Len(visited)
        /\ DOMAIN ret = NamesOf(visited)
        /\ \A name \in DOMAIN ret :
              \E k \in 1..Len(visited) :
                  /\ SpecName(visited[k]) = name
                  /\ ret[name] = visited[k]
                  /\ \A later \in (k + 1)..Len(visited) :
                        SpecName(visited[later]) # name

\* Three nodes named A, B, A: the registry holds B's node and the second A.
C16_Witness ==
    /\ pc = "done" /\ variant = "names" /\ outcome = "Ok"
    /\ visited = <<65536, 131072, 196608>>
    /\ SpecName(65536) = "A" /\ SpecName(131072) = "B" /\ SpecName(196608) = "A"
    /\ DOMAIN ret = {"A", "B"}
    /\ ret["A"] = 196608

-----------------------------------------------------------------------------
(* The size of the vertex buffer read *)

\* C17: whenever the call is about to read a vertex buffer, the count it
\* asks for is 3 times the vertex count read from the mesh, computed
\* without overflow of the 64-bit address width, and the count times the
\* element size (4) does not overflow either; so for every vertex count,
\* the negative ones too.
C17_CountFitsAddressWidth ==
    pc = "f_verts" =>
        /\ ~VertexRequest(num_verts).mul_overflow
        /\ ~VertexRequest(num_verts).capacity_overflow
        /\ UsizeValue(VertexRequest(num_verts).count) = 3 * num_verts

\* What does hold: every count from 0 to i16::MAX is asked for as it is,
\* and every negative count overflows.
CountsOfI16 ==
    /\ \A nv \in 0..32767 :
          /\ ~VertexRequest(nv).mul_overflow
          /\ ~VertexRequest(nv).capacity_overflow
          /\ UsizeValue(VertexRequest(nv).count) = 3 * nv
    /\ \A nv \in (-32768)..(-1) :
          /\ VertexRequest(nv).mul_overflow
          /\ VertexRequest(nv).capacity_overflow

-----------------------------------------------------------------------------
(* The hierarchy walks while the target process runs *)

\* The pointers the target rewrites: the next-sibling pointer of a node and
\* the first-child pointer of the dynamic world.
ChainPointers ==
    {NodeAddr(k, "ok") + 20 : k \in 1..MaxNodes} \cup {WorldAddr("canon") + 8}

\* What it stores there: null, or the address of a node's region (a region
\* the image does not map cannot be read).
ChainTargets == {0} \cup {NodeAddr(k, "ok") : k \in 1..MaxNodes}

\* The target stores a pointer of its chain.  Nothing orders this with the
\* reads of the walk.
t_RewriteChain ==
    /\ pc \in {"w_root", "w_loop", "w_next"}
    /\ writes < MaxTargetWrites
    /\ \E a \in ChainPointers, v \in ChainTargets :
          /\ PageOf(a) \in mem.readable
          /\ PrimAt(mem, a, 4) # v
          /\ mem' = [mem EXCEPT !.bytes = CellBytes(a :> v) @@ @]
    /\ writes' = writes + 1
    /\ UNCHANGED <<pc, outcome, pathVars, walkVars, famVars, strVars, primVars,
                   writeVars, tableVars>>

\* The walks of chains of readable nodes, node k with name index k - 1.
InitWalkTarget ==
    /\ \E v \in {"names", "ai"}, n \in 1..MaxNodes, term \in {"null", "cycle"},
          rootMode \in {"given", "canon"} :
          /\ mem = ChainImage(v, [k \in 1..n |-> (k - 1) % 3], term, 0, "name_err",
                              rootMode)
          /\ variant = v
          /\ super_object = IF rootMode = "given" THEN NodeAddr(1, "ok") ELSE 0
    /\ object_names = <<"A", "B">>
    /\ next_brother = 0
    /\ ret = EmptyMap
    /\ visited = <<>>
    /\ start_node = 0
    /\ next_read = <<>>
    /\ pc = "w_root"
    /\ outcome = "none"
    /\ IdlePath /\ IdleFam /\ IdleStr
    /\ IdlePrim /\ IdleWrite /\ IdleTable /\ IdleTarget

NextWalkTarget == w_Root \/ w_Name \/ w_Next \/ w_Return \/ t_RewriteChain

SpecWalkTarget == InitWalkTarget /\ [][NextWalkTarget]_vars

\* The addresses the registry holds.
RegistryAddresses ==
    IF variant = "names" THEN {ret[name] : name \in DOMAIN ret}
    ELSE UNION {Range(ret[name]) : name \in DOMAIN ret}

\* Every address of the registry was recorded by the walk, and every
\* address recorded is not null and is the start node or a value that the
\* walk read as the next-sibling pointer of a node recorded before it.
RecordedFromChain ==
    /\ RegistryAddresses \subseteq Range(visited)
    /\ \A k \in 1..Len(visited) :
          /\ visited[k] # 0
          /\ \/ visited[k] = start_node
             \/ \E r \in 1..Len(next_read) :
                   /\ next_read[r][2] = visited[k]
                   /\ \E before \in 1..(k - 1) : visited[before] = next_read[r][1]

\* A step that records a node records the node the walk is at, and takes
\* place with that node's name-index path readable hop by hop.
RecordsResolvedNode ==
    visited' # visited =>
        /\ visited' = Append(visited, next_brother)
        /\ next_brother # 0
        /\ NameReadable(next_brother)

\* C18: at every point of a walk, also while the target rewrites the chain
\* between the walk's reads, every address in the registry is non-zero and
\* is the start node or a value the walk read as the next-sibling pointer
\* of a node it had recorded; a node is recorded only when its name-index
\* path has been resolved.
C18_RegistryFromChainReads ==
    /\ []RecordedFromChain
    /\ [][RecordsResolvedNode]_vars

\* The target makes node 1 point past node 2 while the walk is under way:
\* the walk records node 1 and node 3.
C18_Witness ==
    /\ pc = "done" /\ outcome = "Ok"
    /\ writes = 1
    /\ super_object = 0
    /\ visited = <<65536, 196608>>
    /\ next_read = <<<<65536, 196608>>, <<196608, 0>>>>
    /\ RegistryAddresses = {65536, 196608}

=============================================================================
